---------------------------- MODULE Spec2Model ----------------------------
(***************************************************************************)
(* Model of the calibration-budget allocator                               *)
(* (llm_judge_reporting/allocation.py) and of the bias-corrected           *)
(* estimator it feeds (llm_judge_reporting/calibration.py, used by the     *)
(* run/ scripts).                                                          *)
(*                                                                         *)
(* Real numbers are exact rationals <<n, d>> with d > 0, kept in lowest    *)
(* terms.  The one irrational quantity of the allocator,                   *)
(*     x = m / (1 + (1/p - 1) * sqrt(kappa)),                              *)
(* is never materialised: every use the code makes of it (min with an      *)
(* integer, round) is decided exactly by comparing 2*x with an integer,    *)
(* which squares away the root.  round() is Python's: ties go to the even  *)
(* neighbour.                                                              *)
(***************************************************************************)
EXTENDS Integers, Sequences, FiniteSets, TLC

VARIABLES calls,      \* call id -> frame (arguments, locals, position) of one
                      \* invocation of allocate_calibration_sample
          shown,      \* advisories the warnings machinery has printed
          recorded,   \* advisories a caller's catch_warnings(record=True) holds
          est         \* frame of the estimator pipeline (_calculate_result)

vars == <<calls, shown, recorded, est>>

---------------------------------------------------------------------------
(* Bounds of the model. *)
MaxM     == 5      \* budgets m range over 0..MaxM (0 is the invalid one)
MaxPilot == 3      \* m_pilot ranges over -1..MaxPilot
NCalls   == 3      \* concurrent invocations in SpecConc

---------------------------------------------------------------------------
(* Exact rational arithmetic. *)
Abs(i) == IF i < 0 THEN -i ELSE i

RECURSIVE GCD(_, _)
GCD(a, b) == IF b = 0 THEN a ELSE GCD(b, a % b)

RNorm(n, d) ==
    LET g == GCD(Abs(n), Abs(d))
        s == IF d < 0 THEN -1 ELSE 1
    IN  <<(s * n) \div g, (s * d) \div g>>

R(n, d)    == RNorm(n, d)
RInt(i)    == <<i, 1>>
(* Sums and comparisons go through the least common denominator. *)
LCM(a, b)  == (a \div GCD(a, b)) * b
OnLCM(a, b) == LET l == LCM(a[2], b[2])
               IN  <<a[1] * (l \div a[2]), b[1] * (l \div b[2]), l>>
RAdd(a, b) == LET t == OnLCM(a, b) IN RNorm(t[1] + t[2], t[3])
RSub(a, b) == LET t == OnLCM(a, b) IN RNorm(t[1] - t[2], t[3])
(* Products cancel crosswise first, so that they stay small. *)
RMul(a, b) ==
    LET g1 == GCD(Abs(a[1]), Abs(b[2]))
        g2 == GCD(Abs(b[1]), Abs(a[2]))
    IN  RNorm((a[1] \div g1) * (b[1] \div g2), (a[2] \div g2) * (b[2] \div g1))
RDiv(a, b) == RMul(a, <<b[2], b[1]>>)
RLt(a, b)  == LET t == OnLCM(a, b) IN t[1] < t[2]
RLe(a, b)  == LET t == OnLCM(a, b) IN t[1] <= t[2]
RMin(a, b) == IF RLt(b, a) THEN b ELSE a
RAbs(a)    == <<Abs(a[1]), a[2]>>

(* sign(a/b - c/d) for a, c >= 0 and b, d > 0, by continued fractions, so   *)
(* that no product of two large numbers is ever formed.                    *)
RECURSIVE CmpFrac(_, _, _, _)
CmpFrac(a, b, c, d) ==
    LET qa == a \div b
        qc == c \div d
        ra == a % b
        rc == c % d
    IN  IF qa # qc THEN (IF qa > qc THEN 1 ELSE -1)
        ELSE IF ra = 0 /\ rc = 0 THEN 0
        ELSE IF ra = 0 THEN -1
        ELSE IF rc = 0 THEN 1
        ELSE CmpFrac(d, rc, b, ra)


---------------------------------------------------------------------------
(* allocate_calibration_sample: the arithmetic of lines 25-39. *)

(* sign(2*x - y) for x = m / (1 + (1/p - 1) * sqrt(kappa)) and an integer  *)
(* y, where 0 < p <= 1 and kappa >= 0.  With r = (1 - p)/p:                *)
(*   2x >= y  <=>  2m - y >= y*r*sqrt(kappa)                               *)
(*            <=>  ((2m - y)*pn)^2 * kd >= (y*(pd - pn))^2 * kn  (y > 0).  *)
CmpTwiceX(m, p, kappa, y) ==
    IF y < 0 THEN 1
    ELSE IF y = 0 THEN (IF m = 0 THEN 0 ELSE 1)
    ELSE LET d  == 2 * m - y
             L  == (d * p[1]) * (d * p[1])
             Rr == (y * (p[2] - p[1])) * (y * (p[2] - p[1]))
         IN  IF d < 0 THEN -1
             ELSE IF Rr = 0 \/ kappa[1] = 0
                  THEN (IF L > 0 THEN 1 ELSE 0)
             ELSE CmpFrac(L, Rr, kappa[1], kappa[2])

RoundFloor(m, p, kappa) ==
    CHOOSE k \in 0..m :
        /\ CmpTwiceX(m, p, kappa, 2 * k) >= 0
        /\ (k = m \/ CmpTwiceX(m, p, kappa, 2 * k + 2) < 0)

(* round(x): the nearest integer, a tie going to the even one. *)
RoundHalfEven(m, p, kappa) ==
    CHOOSE k \in 0..m :
        LET lo == CmpTwiceX(m, p, kappa, 2 * k - 1)
            hi == CmpTwiceX(m, p, kappa, 2 * k + 1)
        IN  \/ lo > 0 /\ hi < 0
            \/ lo = 0 /\ k % 2 = 0
            \/ hi = 0 /\ k % 2 = 0

(* round(min(m - m_pilot, x)): min keeps the integer m - m_pilot unless x  *)
(* is strictly smaller.                                                    *)
RoundMin(m, m_pilot, p, kappa) ==
    IF CmpTwiceX(m, p, kappa, 2 * (m - m_pilot)) < 0
    THEN RoundHalfEven(m, p, kappa)
    ELSE m - m_pilot

Max(a, b) == IF a >= b THEN a ELSE b

(* line 37: m1 = max(m_pilot, round(min(m - m_pilot, m1))) *)
GeneralM1(m, m_pilot, p, kappa) == Max(m_pilot, RoundMin(m, m_pilot, p, kappa))

(* line 32-33: kappa from the given beliefs, q1_pilot clamped below 1. *)
ClampQ1(q1_pilot, eps) == RMin(q1_pilot, RSub(RInt(1), eps))

KappaPrior(q0_pilot, q1_clamped) ==
    RDiv(RSub(RInt(1), q0_pilot), RSub(RInt(1), q1_clamped))

(* line 35: Laplace-smoothed kappa from the pilot. *)
KappaPilot(m_pilot, q0_pilot, q1_pilot) ==
    RDiv(RAdd(RMul(RInt(m_pilot), RSub(RInt(1), q0_pilot)), RInt(1)),
         RAdd(RMul(RInt(m_pilot), RSub(RInt(1), q1_pilot)), RInt(1)))

(* lines 19-23: the five assertions at entry. *)
InUnit(x) == RLe(RInt(0), x) /\ RLe(x, RInt(1))

EntryOkNoTypeCheck(a) ==
    /\ InUnit(a.p)
    /\ InUnit(a.q0_pilot)
    /\ InUnit(a.q1_pilot)
    /\ a.m > 0
    /\ a.m_pilot >= 0

EntryOk(a) ==
    /\ InUnit(a.p)
    /\ InUnit(a.q0_pilot)
    /\ InUnit(a.q1_pilot)
    /\ a.m_is_int /\ a.m > 0
    /\ a.m_pilot_is_int /\ a.m_pilot >= 0

(* line 25: the degenerate test. *)
IsDegenerateLeq(p, eps) == RLe(p, eps)

IsDegenerate(p, eps) == RLt(p, eps)

(* line 28: the branch that emits the advisory. *)
NeedsAdvisoryAlways(m_pilot) == TRUE

NeedsAdvisory(m_pilot) == m_pilot = 0

---------------------------------------------------------------------------
(* Inputs.  Probabilities include values outside [0,1]; budgets include 0; *)
(* pilots include -1; eps is the default 1e-6 or 1/4, which lies on the    *)
(* grid of p so that p = eps happens.                                      *)
DefaultEps == R(1, 1000000)

PVals   == {R(-1, 4), R(0, 1), R(1, 10000000), R(1, 4), R(1, 2), R(3, 4),
            R(1, 1), R(5, 4)}
QVals   == {R(0, 1), R(1, 2), R(9, 10), R(1, 1), R(5, 4)}
EpsVals == {DefaultEps, R(1, 4)}

(* How the caller's environment treats an emitted advisory: printed,       *)
(* collected by catch_warnings(record=True), or filtered out.  A caller    *)
(* that escalates warnings to exceptions treats the advisory as a failure  *)
(* and is outside these environments.                                      *)
Envs == {"deliver", "record", "silence"}

Args(m, p, q0, q1, mp, eps, mi, mpi) ==
    [m |-> m, p |-> p, q0_pilot |-> q0, q1_pilot |-> q1, m_pilot |-> mp,
     eps |-> eps, m_is_int |-> mi, m_pilot_is_int |-> mpi]

(* Integer-typed calls over the whole grid. *)
GridArgs ==
    {Args(m, p, q0, q1, mp, eps, TRUE, TRUE) :
        m \in 0..MaxM, p \in PVals, q0 \in QVals, q1 \in QVals,
        mp \in (-1)..MaxPilot, eps \in EpsVals}

(* Calls passing a float (2.0, 1.0) where an integer is required. *)
FloatArgs ==
    {Args(2, p, R(1, 2), R(9, 10), mp, DefaultEps, mi, mpi) :
        p \in {R(0, 1), R(1, 2)}, mp \in {0, 1},
        mi \in BOOLEAN, mpi \in BOOLEAN}

(* figure 3's setting: m = 1000, p = 0.5, q0 = 0.7, q1 = 0.9, no pilot. *)
Scenario3 == Args(1000, R(1, 2), R(7, 10), R(9, 10), 0, DefaultEps, TRUE, TRUE)

ArgSet == GridArgs \cup FloatArgs \cup {Scenario3}

(* The frame of a call about to execute line 19. *)
NewFrame(a, env) ==
    [args |-> a, env |-> env, pc |-> "entry",
     q1_pilot |-> a.q1_pilot,   \* the local line 32 rebinds
     kappa |-> <<>>,            \* <<>>: not assigned
     m1 |-> <<>>,               \* <<>>: not assigned, else <<value>>
     ret |-> <<>>,              \* <<>>: nothing returned, else <<m0, m1>>
     status |-> "running",      \* "running", "returned", "AssertionError"
     advisories |-> 0]          \* warnings.warn calls made by this call

(* The frame of the estimator pipeline.  <<>>: not assigned. *)
EstFrame(mode, pc, theta, p, q0, q1, n, m0, m1) ==
    [mode |-> mode, pc |-> pc, theta |-> theta, p |-> p, q0 |-> q0, q1 |-> q1,
     n |-> n, m0 |-> m0, m1 |-> m1,
     theta_hat |-> <<>>, pe_status |-> "none", ci_status |-> "none"]

IdleEst == EstFrame("none", "idle", <<>>, <<>>, <<>>, <<>>, 0, 0, 0)

Init ==
    /\ calls \in [{1} -> {NewFrame(a, e) : a \in ArgSet, e \in Envs}]
    /\ shown = 0
    /\ recorded = 0
    /\ est = IdleEst

---------------------------------------------------------------------------
(* The steps of one call. *)

(* lines 19-23 *)
Entry(c) ==
    /\ calls[c].pc = "entry"
    /\ calls' = [calls EXCEPT ![c] =
                   IF EntryOk(@.args)
                   THEN [@ EXCEPT !.pc = "branch"]
                   ELSE [@ EXCEPT !.pc = "raised", !.status = "AssertionError"]]
    /\ UNCHANGED <<shown, recorded, est>>

(* the assignment to the local m1 (lines 26, 37) *)
SetM1Shared(cs, c, v) == [d \in DOMAIN cs |-> [cs[d] EXCEPT !.m1 = <<v>>]]

SetM1(cs, c, v) == [cs EXCEPT ![c].m1 = <<v>>]

(* lines 25-28 *)
Branch(c) ==
    LET f == calls[c]
        a == f.args
    IN  /\ f.pc = "branch"
        /\ calls' =
             IF IsDegenerate(a.p, a.eps)
             THEN [SetM1(calls, c, a.m - a.m_pilot) EXCEPT ![c].pc = "ret"]
             ELSE IF NeedsAdvisory(a.m_pilot)
                  THEN [calls EXCEPT ![c].pc = "warn"]
                  ELSE [calls EXCEPT ![c].pc = "kappa_pilot"]
        /\ UNCHANGED <<shown, recorded, est>>

(* lines 29-31: warnings.warn *)
AfterWarnRaise(f) ==
    [f EXCEPT !.advisories = @ + 1, !.pc = "raised", !.status = "UserWarning"]

AfterWarn(f) == [f EXCEPT !.advisories = @ + 1, !.pc = "kappa_prior"]

Warn(c) ==
    /\ calls[c].pc = "warn"
    /\ calls' = [calls EXCEPT ![c] = AfterWarn(@)]
    /\ shown' = IF calls[c].env = "deliver" THEN shown + 1 ELSE shown
    /\ recorded' = IF calls[c].env = "record" THEN recorded + 1 ELSE recorded
    /\ UNCHANGED est

(* lines 32-33 *)
KappaFromPrior(c) ==
    LET f   == calls[c]
        q1c == ClampQ1(f.q1_pilot, f.args.eps)
    IN  /\ f.pc = "kappa_prior"
        /\ calls' = [calls EXCEPT ![c] =
                       [f EXCEPT !.q1_pilot = q1c,
                                 !.kappa = KappaPrior(f.args.q0_pilot, q1c),
                                 !.pc = "m1"]]
        /\ UNCHANGED <<shown, recorded, est>>

(* line 35 *)
KappaFromPilot(c) ==
    LET f == calls[c]
    IN  /\ f.pc = "kappa_pilot"
        /\ calls' = [calls EXCEPT ![c] =
                       [f EXCEPT !.kappa = KappaPilot(f.args.m_pilot,
                                                      f.args.q0_pilot, f.q1_pilot),
                                 !.pc = "m1"]]
        /\ UNCHANGED <<shown, recorded, est>>

(* lines 36-37 *)
ComputeM1(c) ==
    LET f == calls[c]
        a == f.args
    IN  /\ f.pc = "m1"
        /\ calls' = [SetM1(calls, c, GeneralM1(a.m, a.m_pilot, a.p, f.kappa))
                       EXCEPT ![c].pc = "ret"]
        /\ UNCHANGED <<shown, recorded, est>>

(* lines 39-40 *)
Return(c) ==
    LET f == calls[c]
    IN  /\ f.pc = "ret"
        /\ calls' = [calls EXCEPT ![c] =
                       [f EXCEPT !.ret = <<f.args.m - f.m1[1], f.m1[1]>>,
                                 !.status = "returned",
                                 !.pc = "done"]]
        /\ UNCHANGED <<shown, recorded, est>>

Next ==
    \/ \E c \in DOMAIN calls : Entry(c)
    \/ \E c \in DOMAIN calls : Branch(c)
    \/ \E c \in DOMAIN calls : Warn(c)
    \/ \E c \in DOMAIN calls : KappaFromPrior(c)
    \/ \E c \in DOMAIN calls : KappaFromPilot(c)
    \/ \E c \in DOMAIN calls : ComputeM1(c)
    \/ \E c \in DOMAIN calls : Return(c)

Spec == Init /\ [][Next]_vars

(* NCalls invocations in flight at once, their steps interleaved in any    *)
(* order: a general-branch call without pilot under each environment, a    *)
(* call with a pilot, and a call that fails at entry.                      *)
ConcNoPilot == Args(4, R(1, 2), R(1, 2), R(9, 10), 0, DefaultEps, TRUE, TRUE)
ConcPilot   == Args(4, R(1, 1), R(1, 2), R(9, 10), 1, DefaultEps, TRUE, TRUE)
ConcInvalid == Args(4, R(5, 4), R(1, 2), R(9, 10), 0, DefaultEps, TRUE, TRUE)

ConcFrames ==
    {NewFrame(ConcNoPilot, e) : e \in Envs}
        \cup {NewFrame(ConcPilot, "deliver"), NewFrame(ConcInvalid, "record")}

InitConc ==
    /\ calls \in [1..NCalls -> ConcFrames]
    /\ shown = 0
    /\ recorded = 0
    /\ est = IdleEst

SpecConc == InitConc /\ [][Next]_vars

(* Two accepted calls that differ in p alone (p <= p'), for comparing the  *)
(* allocations along p.                                                    *)
ValidPVals == {p \in PVals : InUnit(p)}
ValidQVals == {q \in QVals : InUnit(q)}

PPairs == {pp \in ValidPVals \X ValidPVals : RLe(pp[1], pp[2])}

InitPair ==
    /\ calls \in
         {<<NewFrame(Args(m, pp[1], q0, q1, mp, eps, TRUE, TRUE), "silence"),
            NewFrame(Args(m, pp[2], q0, q1, mp, eps, TRUE, TRUE), "silence")>> :
            m \in 1..MaxM, q0 \in ValidQVals, q1 \in ValidQVals,
            mp \in 0..MaxPilot, eps \in EpsVals, pp \in PPairs}
    /\ shown = 0
    /\ recorded = 0
    /\ est = IdleEst

SpecPair == InitPair /\ [][Next]_vars

---------------------------------------------------------------------------
(* The estimator, as the run/ scripts drive it. *)

(* figure2, line 21: the judge's expected observed rate. *)
ExpectedObservedRateSwapped(theta, q0, q1) ==
    RAdd(RMul(RSub(RAdd(q0, q1), RInt(1)), theta), RSub(RInt(1), q1))

ExpectedObservedRate(theta, q0, q1) ==
    RAdd(RMul(RSub(RAdd(q0, q1), RInt(1)), theta), RSub(RInt(1), q0))

(* calibration.clip: max(0, min(1, x)) *)
Clip(x) == IF RLt(x, RInt(0)) THEN RInt(0)
           ELSE IF RLt(RInt(1), x) THEN RInt(1) ELSE x

(* The threshold on |D| = |q0 + q1 - 1| (default 1e-6). *)
EstEps == DefaultEps

Discriminability(q0, q1) == RSub(RAdd(q0, q1), RInt(1))

IsDegenerateD(q0, q1) == RLt(RAbs(Discriminability(q0, q1)), EstEps)

(* calibration.point_estimator: the ways a call can end.  The errors that  *)
(* apply are not ordered among themselves, so any of them may surface.     *)
PointEstimatorOutcomes(p, q0, q1) ==
    LET errors ==
            {"InvalidInput" : x \in {y \in {p, q0, q1} : ~InUnit(y)}}
            \cup (IF InUnit(q0) /\ InUnit(q1) /\ IsDegenerateD(q0, q1)
                  THEN {"DegenerateCalibration"} ELSE {})
    IN  IF errors # {}
        THEN {[status |-> e, value |-> <<>>] : e \in errors}
        ELSE {[status |-> "returned",
               value |-> Clip(RDiv(RAdd(RSub(p, RInt(1)), q0),
                                   Discriminability(q0, q1)))]}

(* calibration.confidence_interval: the ways a call can end (the bounds    *)
(* themselves, which need the normal quantile, are not computed).          *)
ConfidenceIntervalOutcomes(p, q0, q1, n, m0, m1) ==
    LET errors ==
            {o.status : o \in {x \in PointEstimatorOutcomes(p, q0, q1) :
                                  x.status # "returned"}}
            \cup (IF n = 0 \/ m0 = 0 \/ m1 = 0
                  THEN {"InvalidSampleSize"} ELSE {})
    IN  IF errors # {} THEN errors ELSE {"returned"}

(* figure4, line 32 / figure2, line 31: the arguments handed on. *)
PointEstimatorArgsSwapped(e) == <<e.q0, e.p, e.q1>>

PointEstimatorArgs(e) == <<e.p, e.q0, e.q1>>

MaxSize == 2

NearHalf == R(5000001, 10000000)   \* q with 0 < |1/2 + q - 1| < 1e-6

ThetaVals == {R(0, 1), R(1, 4), R(1, 2), R(3, 4), R(1, 1)}
EstQVals  == {R(0, 1), R(1, 4), R(1, 2), NearHalf, R(7, 10), R(3, 4),
              R(9, 10), R(1, 1)}
EstPVals  == {R(0, 1), R(1, 4), R(1, 2), R(3, 4), R(1, 1), R(5, 4)}

(* Three drivers: figure2.generate_figure derives p from theta and then    *)
(* estimates; figure4._calculate_result estimates from a simulated p_hat;  *)
(* figure3.compute_ci_lengths calls confidence_interval directly.          *)
InitEst ==
    /\ calls = <<>>
    /\ shown = 0
    /\ recorded = 0
    /\ \E q0 \in EstQVals, q1 \in EstQVals, n \in 0..MaxSize,
          m0 \in 0..MaxSize, m1 \in 0..MaxSize :
          \/ \E theta \in ThetaVals :
                est = EstFrame("figure2", "expect", theta, <<>>, q0, q1, n, m0, m1)
          \/ \E p \in EstPVals :
                est = EstFrame("figure4", "estimate", <<>>, p, q0, q1, n, m0, m1)
          \/ \E p \in EstPVals :
                est = EstFrame("figure3", "interval", <<>>, p, q0, q1, n, m0, m1)

(* figure2, line 108 -> 19-23 *)
ComputeExpected ==
    /\ est.pc = "expect"
    /\ est' = [est EXCEPT !.p = ExpectedObservedRate(est.theta, est.q0, est.q1),
                          !.pc = "estimate"]
    /\ UNCHANGED <<calls, shown, recorded>>

(* figure2, line 31; figure4, line 32: an error propagates to the caller *)
Estimate ==
    /\ est.pc = "estimate"
    /\ LET a == PointEstimatorArgs(est)
       IN  \E o \in PointEstimatorOutcomes(a[1], a[2], a[3]) :
              est' = [est EXCEPT !.theta_hat = o.value,
                                 !.pe_status = o.status,
                                 !.pc = IF o.status = "returned"
                                        THEN "interval" ELSE "raised"]
    /\ UNCHANGED <<calls, shown, recorded>>

(* figure2, line 32; figure4, line 33; figure3, line 40 *)
Interval ==
    /\ est.pc = "interval"
    /\ \E s \in ConfidenceIntervalOutcomes(est.p, est.q0, est.q1,
                                           est.n, est.m0, est.m1) :
          est' = [est EXCEPT !.ci_status = s,
                             !.pc = IF s = "returned" THEN "done" ELSE "raised"]
    /\ UNCHANGED <<calls, shown, recorded>>

NextEst ==
    \/ ComputeExpected
    \/ Estimate
    \/ Interval

SpecEst == InitEst /\ [][NextEst]_vars

---------------------------------------------------------------------------
(* figure3.compute_ci_lengths: for each m, the equal-split interval, then  *)
(* the allocation without pilot and the interval on the allocated sizes.   *)

(* The frame of compute_ci_lengths at the head of its loop. *)
CiFrame(p, q0, q1, n, m_values) ==
    [mode |-> "compute_ci_lengths", pc |-> "loop",
     p |-> p, q0 |-> q0, q1 |-> q1, n |-> n,
     m_values |-> m_values,     \* the budgets not yet visited
     m |-> 0, m0 |-> 0, m1 |-> 0,
     equal_ci |-> 0,            \* lengths appended to equal_ci
     adapt_ci |-> 0,            \* lengths appended to adapt_ci
     ci_status |-> "none"]      \* how the last confidence_interval call ended

(* line 43: allocate_calibration_sample(m, p, q0, q1, 0) *)
DriverArgsSwapped(e) ==
    Args(e.m, e.p, e.q1, e.q0, 0, DefaultEps, TRUE, TRUE)

DriverArgs(e) ==
    Args(e.m, e.p, e.q0, e.q1, 0, DefaultEps, TRUE, TRUE)

MValues == {<<a>> : a \in 1..MaxM} \cup {<<a, b>> : a \in 1..MaxM, b \in 1..MaxM}

InitCI ==
    /\ calls = <<>>
    /\ shown = 0
    /\ recorded = 0
    /\ est \in {CiFrame(p, q0, q1, n, ms) :
                  p \in PVals, q0 \in QVals, q1 \in QVals,
                  n \in 0..MaxSize, ms \in MValues}

(* line 39: for m in m_values; line 46 when exhausted *)
LoopNext ==
    /\ est.pc = "loop"
    /\ est' = IF est.m_values = <<>>
              THEN [est EXCEPT !.pc = "done"]
              ELSE [est EXCEPT !.m = Head(est.m_values),
                               !.m_values = Tail(est.m_values),
                               !.pc = "equal"]
    /\ UNCHANGED <<calls, shown, recorded>>

(* lines 40-41 *)
EqualSplitInterval ==
    /\ est.pc = "equal"
    /\ \E s \in ConfidenceIntervalOutcomes(est.p, est.q0, est.q1, est.n,
                                           est.m \div 2, est.m \div 2) :
          est' = IF s = "returned"
                 THEN [est EXCEPT !.ci_status = s, !.equal_ci = @ + 1,
                                  !.pc = "allocate"]
                 ELSE [est EXCEPT !.ci_status = s, !.pc = "raised"]
    /\ UNCHANGED <<calls, shown, recorded>>

(* line 43: the call is made; the script's warnings are printed *)
StartAllocate ==
    /\ est.pc = "allocate"
    /\ calls' = <<NewFrame(DriverArgs(est), "deliver")>>
    /\ est' = [est EXCEPT !.pc = "allocating"]
    /\ UNCHANGED <<shown, recorded>>

(* line 43: m0, m1 = the returned pair; a failure propagates *)
FinishAllocate ==
    /\ est.pc = "allocating"
    /\ calls[1].pc \in {"done", "raised"}
    /\ est' = IF calls[1].status = "returned"
              THEN [est EXCEPT !.m0 = calls[1].ret[1], !.m1 = calls[1].ret[2],
                               !.pc = "adaptive"]
              ELSE [est EXCEPT !.pc = "raised"]
    /\ UNCHANGED <<calls, shown, recorded>>

(* lines 44-45 *)
AdaptiveInterval ==
    /\ est.pc = "adaptive"
    /\ \E s \in ConfidenceIntervalOutcomes(est.p, est.q0, est.q1, est.n,
                                           est.m0, est.m1) :
          est' = IF s = "returned"
                 THEN [est EXCEPT !.ci_status = s, !.adapt_ci = @ + 1,
                                  !.pc = "loop"]
                 ELSE [est EXCEPT !.ci_status = s, !.pc = "raised"]
    /\ UNCHANGED <<calls, shown, recorded>>

(* The call made on line 43 has no pilot, so line 35 is never on its path. *)
NextCI ==
    \/ LoopNext
    \/ EqualSplitInterval
    \/ StartAllocate
    \/ \E c \in DOMAIN calls : Entry(c)
    \/ \E c \in DOMAIN calls : Branch(c)
    \/ \E c \in DOMAIN calls : Warn(c)
    \/ \E c \in DOMAIN calls : KappaFromPrior(c)
    \/ \E c \in DOMAIN calls : ComputeM1(c)
    \/ \E c \in DOMAIN calls : Return(c)
    \/ FinishAllocate
    \/ AdaptiveInterval

SpecCI == InitCI /\ [][NextCI]_vars

---------------------------------------------------------------------------
(* Vocabulary of the properties. *)
Finished(f) == f.pc \in {"done", "raised"}
Returned(f) == f.status = "returned"
Frames      == {calls[c] : c \in DOMAIN calls}

(* The input contract as the documentation words it: probabilities in      *)
(* [0,1], m a positive integer, m_pilot a non-negative integer.            *)
ValidInput(a) ==
    /\ \A x \in {a.p, a.q0_pilot, a.q1_pilot} : x[1] >= 0 /\ x[1] <= x[2]
    /\ a.m_is_int /\ a.m >= 1
    /\ a.m_pilot_is_int /\ a.m_pilot >= 0

Feasible(a) == 2 * a.m_pilot <= a.m

(* kappa as the documentation gives it. *)
DocKappa(a) ==
    LET one_q0 == R(a.q0_pilot[2] - a.q0_pilot[1], a.q0_pilot[2])
        one_q1 == R(a.q1_pilot[2] - a.q1_pilot[1], a.q1_pilot[2])
    IN  IF a.m_pilot = 0
        THEN RDiv(one_q0, IF RLt(one_q1, a.eps) THEN a.eps ELSE one_q1)
        ELSE R((a.m_pilot * one_q0[1] + one_q0[2]) * one_q1[2],
               (a.m_pilot * one_q1[1] + one_q1[2]) * one_q0[2])

(* k is a nearest integer to clamp(x) = max(m_pilot, min(m - m_pilot, x)), *)
(* x = m / (1 + (1/p - 1) * sqrt(kappa)):  2k - 1 <= 2*clamp(x) <= 2k + 1. *)
NearestOfClamped(a, kappa, k) ==
    LET lo == 2 * a.m_pilot
        hi == 2 * (a.m - a.m_pilot)
    IN  /\ \/ lo >= 2 * k - 1
           \/ hi >= 2 * k - 1 /\ CmpTwiceX(a.m, a.p, kappa, 2 * k - 1) >= 0
        /\ lo <= 2 * k + 1
        /\ \/ hi <= 2 * k + 1
           \/ CmpTwiceX(a.m, a.p, kappa, 2 * k + 1) <= 0

---------------------------------------------------------------------------
(* C1: every call that returns hands back integers (m0, m1) with           *)
(* m0 + m1 = m, m0 >= m_pilot and m1 >= m_pilot, in both branches.         *)
(* The code accepts 2*m_pilot > m (see C2), and there one side falls       *)
(* below m_pilot.                                                          *)
C1_BudgetConserved ==
    \A f \in Frames :
        Returned(f) =>
            /\ f.ret[1] + f.ret[2] = f.args.m
            /\ f.ret[1] >= f.args.m_pilot
            /\ f.ret[2] >= f.args.m_pilot

(* What does hold of the code: the same, for the calls whose pilot fits. *)
C1_BudgetConservedWhenFeasible ==
    \A f \in Frames :
        Returned(f) /\ Feasible(f.args) =>
            /\ f.ret[1] + f.ret[2] = f.args.m
            /\ f.ret[1] >= f.args.m_pilot
            /\ f.ret[2] >= f.args.m_pilot

(* C2: a call with 2*m_pilot > m fails with InfeasibleAllocation and       *)
(* returns nothing, whatever p is.  The code has no such check.            *)
C2_InfeasibleRejected ==
    \A f \in Frames :
        Finished(f) /\ ValidInput(f.args) /\ ~Feasible(f.args) =>
            f.status = "InfeasibleAllocation" /\ f.ret = <<>>

(* C3: an accepted call with p < eps returns exactly                       *)
(* (m_pilot, m - m_pilot) without ever computing kappa, so independently   *)
(* of q0_pilot and q1_pilot; with p = eps or p > eps the call goes through *)
(* the general branch (kappa is computed).                                 *)
C3_DegenerateBranch ==
    \A f \in Frames :
        Returned(f) =>
            IF RLt(f.args.p, f.args.eps)
            THEN f.ret = <<f.args.m_pilot, f.args.m - f.args.m_pilot>>
                 /\ f.kappa = <<>>
            ELSE f.kappa # <<>>

C3_Witness ==
    \E f \in Frames :
        /\ Returned(f)
        /\ f.args.p[1] > 0 /\ RLt(f.args.p, f.args.eps)
        /\ f.args.m_pilot > 0
        /\ f.args.q0_pilot # f.args.q1_pilot
        /\ f.ret = <<f.args.m_pilot, f.args.m - f.args.m_pilot>>

(* C4: an accepted call with p >= eps returns m1 = a nearest integer to    *)
(* m / (1 + (1/p - 1)*sqrt(kappa)) clamped to [m_pilot, m - m_pilot], with *)
(* kappa as documented for m_pilot = 0 and m_pilot > 0, and m0 = m - m1;   *)
(* m = 1000, p = 0.5, q0 = 0.7, q1 = 0.9, m_pilot = 0 returns (634, 366).  *)
C4_GeneralFormula ==
    \A f \in Frames :
        Returned(f) /\ ~RLt(f.args.p, f.args.eps) =>
            /\ NearestOfClamped(f.args, DocKappa(f.args), f.ret[2])
            /\ f.ret[1] = f.args.m - f.ret[2]
            /\ (f.args = Scenario3 => f.ret = <<634, 366>>)

C4_Witness ==
    \E f \in Frames :
        Returned(f) /\ f.args = Scenario3 /\ f.ret = <<634, 366>>

(* C5 as claimed: every accepted call with m_pilot = 0 emits exactly one   *)
(* advisory, whatever p is, and no call with m_pilot > 0 emits one.        *)
C5_AdvisoryWheneverNoPilot ==
    \A f \in Frames :
        Returned(f) =>
            f.advisories = (IF f.args.m_pilot = 0 THEN 1 ELSE 0)

(* C5 as amended: the advisory is emitted, exactly once and before the     *)
(* call is ready to return, when m_pilot = 0 and p >= eps; a call with     *)
(* p < eps or with m_pilot > 0 emits none.                                 *)
C5_AdvisoryInGeneralBranch ==
    \A f \in Frames :
        f.pc \in {"ret", "done"} =>
            f.advisories =
                (IF f.args.m_pilot = 0 /\ ~RLt(f.args.p, f.args.eps)
                 THEN 1 ELSE 0)

C5_Witness ==
    \E f \in Frames :
        /\ Returned(f)
        /\ f.args.m_pilot = 0
        /\ ~RLt(f.args.p, f.args.eps)
        /\ f.advisories = 1

(* C7: a call with a probability outside [0,1], with m not a positive      *)
(* integer or with m_pilot not a non-negative integer fails at entry:      *)
(* nothing has been computed, nothing is returned, no advisory is emitted. *)
C7_InvalidInputFailsAtEntry ==
    \A f \in Frames :
        ~ValidInput(f.args) /\ f.pc # "entry" =>
            /\ f.pc = "raised"
            /\ f.status = "AssertionError"
            /\ f.ret = <<>>
            /\ f.kappa = <<>>
            /\ f.m1 = <<>>
            /\ f.advisories = 0
            /\ shown = 0 /\ recorded = 0

C7_Witness ==
    \E f \in Frames :
        /\ f.pc = "raised"
        /\ f.status = "AssertionError"
        /\ ~f.args.m_is_int
        /\ f.args.m > 0

C8_CallsIndependent ==
    \A c, d \in DOMAIN calls :
        /\ Finished(calls[c]) /\ Finished(calls[d])
        /\ calls[c].args = calls[d].args
        => /\ calls[c].status = calls[d].status
           /\ calls[c].ret = calls[d].ret

C8_Witness ==
    \E c, d, e \in DOMAIN calls :
        /\ c # d
        /\ Returned(calls[c]) /\ Returned(calls[d]) /\ Returned(calls[e])
        /\ calls[c].args = calls[d].args
        /\ calls[e].args # calls[c].args
        /\ calls[e].ret # calls[c].ret

---------------------------------------------------------------------------
(* Properties of the estimator. *)
OpenUnit(x) == x[1] > 0 /\ x[1] < x[2]

(* C9 as claimed: for theta in [0,1] and q0, q1 in (0,1) with              *)
(* q0 + q1 # 1, point_estimator applied to the expected observed rate      *)
(* returns theta.                                                          *)
C9_RoundTrip ==
    /\ est.mode = "figure2"
    /\ est.pe_status # "none"
    /\ OpenUnit(est.q0) /\ OpenUnit(est.q1)
    /\ RAdd(est.q0, est.q1) # RInt(1)
    => est.pe_status = "returned" /\ est.theta_hat = est.theta

(* C9 as amended: the round trip returns theta whenever                    *)
(* |q0 + q1 - 1| >= eps; for 0 < |q0 + q1 - 1| < eps the estimator fails   *)
(* with DegenerateCalibration instead of returning.                        *)
C9_RoundTripAwayFromChance ==
    /\ est.mode = "figure2"
    /\ est.pe_status # "none"
    /\ OpenUnit(est.q0) /\ OpenUnit(est.q1)
    => IF RLt(RAbs(RSub(RAdd(est.q0, est.q1), RInt(1))), R(1, 1000000))
       THEN est.pe_status = "DegenerateCalibration" /\ est.theta_hat = <<>>
       ELSE est.pe_status = "returned" /\ est.theta_hat = est.theta

C9_Witness ==
    /\ est.mode = "figure2"
    /\ est.pe_status = "returned"
    /\ est.q0 = R(7, 10) /\ est.q1 = R(9, 10)
    /\ est.theta = R(1, 4)
    /\ est.p # est.theta
    /\ est.theta_hat = est.theta

(* C10: whenever |q0 + q1 - 1| < eps, point_estimator and                  *)
(* confidence_interval fail with DegenerateCalibration and return nothing; *)
(* on every other valid input point_estimator returns a value in [0,1].    *)
C10_DegenerateRejected ==
    LET valid == \A x \in {est.p, est.q0, est.q1} : x[1] >= 0 /\ x[1] <= x[2]
        sizes == est.n >= 1 /\ est.m0 >= 1 /\ est.m1 >= 1
        near  == RLt(RAbs(RSub(RAdd(est.q0, est.q1), RInt(1))), R(1, 1000000))
    IN  /\ est.pe_status # "none" /\ valid =>
              IF near
              THEN est.pe_status = "DegenerateCalibration"
                   /\ est.theta_hat = <<>> /\ est.pc = "raised"
              ELSE /\ est.pe_status = "returned"
                   /\ est.theta_hat[2] > 0
                   /\ est.theta_hat[1] >= 0
                   /\ est.theta_hat[1] <= est.theta_hat[2]
        /\ est.ci_status # "none" /\ valid /\ sizes /\ near =>
              est.ci_status = "DegenerateCalibration" /\ est.pc = "raised"

C10_Witness ==
    /\ est.mode = "figure4"
    /\ est.p = R(1, 2) /\ est.q0 = R(1, 2) /\ est.q1 = R(1, 2)
    /\ est.pe_status = "DegenerateCalibration"
    /\ est.pc = "raised"

---------------------------------------------------------------------------
(* Properties of compute_ci_lengths. *)

(* The interval on the allocated sizes (line 44) is the call that failed:  *)
(* the equal-split interval of this round had returned.                    *)
AdaptiveFailed ==
    /\ est.pc = "raised"
    /\ est.equal_ci = est.adapt_ci + 1
    /\ est.ci_status # "returned"

(* C11 as claimed: for m >= 2, probabilities in [0,1] and m_pilot = 0 the  *)
(* returned pair has m0 >= 1 and m1 >= 1, so 'allocate, then               *)
(* confidence_interval' in compute_ci_lengths never ends in                *)
(* InvalidSampleSize.                                                      *)
C11_AllocationUsable ==
    est.m >= 2 =>
        /\ est.pc = "adaptive" => est.m0 >= 1 /\ est.m1 >= 1
        /\ ~(AdaptiveFailed /\ est.ci_status = "InvalidSampleSize")

(* C11 as amended: the pair has m0 + m1 = m with both sides >= 0; both     *)
(* sides are >= 1 whenever p >= eps and                                    *)
(* 1/2 < m / (1 + (1/p - 1)*sqrt(kappa)) < m - 1/2, and then the interval  *)
(* on the allocated sizes does not end in InvalidSampleSize; when p < eps, *)
(* p = 1 or q0 = 1 the pair is (0, m), and the interval on the allocated   *)
(* sizes can only fail with a zero side, as InvalidSampleSize.             *)
C11_UsableAwayFromTheEnds ==
    LET eps   == R(1, 1000000)
        kappa == DocKappa([q0_pilot |-> est.q0, q1_pilot |-> est.q1,
                           m_pilot |-> 0, eps |-> eps])
        inner == /\ ~RLt(est.p, eps)
                 /\ CmpTwiceX(est.m, est.p, kappa, 1) > 0
                 /\ CmpTwiceX(est.m, est.p, kappa, 2 * est.m - 1) < 0
        atEnd == RLt(est.p, eps) \/ est.p = RInt(1) \/ est.q0 = RInt(1)
    IN  /\ est.pc = "adaptive" =>
              /\ est.m >= 2
              /\ est.m0 + est.m1 = est.m /\ est.m0 >= 0 /\ est.m1 >= 0
              /\ inner => est.m0 >= 1 /\ est.m1 >= 1
              /\ atEnd => est.m0 = 0 /\ est.m1 = est.m
        /\ AdaptiveFailed /\ calls[1].status = "returned" =>
              /\ est.ci_status = "InvalidSampleSize"
              /\ est.m0 = 0 \/ est.m1 = 0
              /\ ~inner
        /\ est.pc = "loop" /\ est.adapt_ci >= 1 =>
              est.m0 >= 1 /\ est.m1 >= 1

C11_Witness ==
    /\ est.pc = "loop"
    /\ est.adapt_ci = 2
    /\ est.ci_status = "returned"
    /\ est.m >= 2 /\ est.m0 >= 1 /\ est.m1 >= 1
    /\ est.m0 # est.m1

---------------------------------------------------------------------------
(* Properties along p. *)

(* c and d were called with the same arguments, p apart. *)
SameButP(a, b) == [a EXCEPT !.p = b.p] = b

(* C12: for fixed m, q0_pilot, q1_pilot, m_pilot and eps, and              *)
(* eps <= p <= p' <= 1, the m1 returned for p is at most the m1 returned   *)
(* for p' (and m0 does not increase); at p' = 1 the result is              *)
(* m1 = m - m_pilot, m0 = m_pilot.  The code accepts 2*m_pilot > m (see    *)
(* C2), and there p = 1 returns m1 = m_pilot instead.                      *)
C12_MonotoneInP ==
    \A c, d \in DOMAIN calls :
        LET f == calls[c]
            g == calls[d]
        IN  /\ Returned(f) /\ Returned(g)
            /\ SameButP(f.args, g.args)
            /\ ~RLt(f.args.p, f.args.eps)
            /\ RLe(f.args.p, g.args.p)
            => /\ f.ret[2] <= g.ret[2]
               /\ f.ret[1] >= g.ret[1]
               /\ g.args.p = RInt(1) =>
                     g.ret = <<g.args.m_pilot, g.args.m - g.args.m_pilot>>

(* What does hold of the code: the same, for the calls whose pilot fits. *)
C12_MonotoneWhenFeasible ==
    \A c, d \in DOMAIN calls :
        LET f == calls[c]
            g == calls[d]
        IN  /\ Returned(f) /\ Returned(g)
            /\ SameButP(f.args, g.args)
            /\ Feasible(f.args)
            /\ ~RLt(f.args.p, f.args.eps)
            /\ RLe(f.args.p, g.args.p)
            => /\ f.ret[2] <= g.ret[2]
               /\ f.ret[1] >= g.ret[1]
               /\ g.args.p = RInt(1) =>
                     g.ret = <<g.args.m_pilot, g.args.m - g.args.m_pilot>>

(* Without the value at p = 1, monotonicity holds of every accepted call. *)
C12_MonotoneOnly ==
    \A c, d \in DOMAIN calls :
        LET f == calls[c]
            g == calls[d]
        IN  /\ Returned(f) /\ Returned(g)
            /\ SameButP(f.args, g.args)
            /\ ~RLt(f.args.p, f.args.eps)
            /\ RLe(f.args.p, g.args.p)
            => f.ret[2] <= g.ret[2] /\ f.ret[1] >= g.ret[1]

=============================================================================
